---- MODULE Spec2Model ----
(***************************************************************************)
(* Model of the mail client of src/libraries/mail/client.cpp: the outgoing *)
(* pipeline (process_outgoing_mail, the proof-of-work worker, the transmit *)
(* worker with its per-server sub-tasks and timeout, finalize_message),    *)
(* the inbound fetch loop (check_new_mail) and the facade calls.           *)
(*                                                                         *)
(* fc tasks are cooperative: a task runs until it suspends (socket I/O, a  *)
(* wait on a future, fc::yield).  One action of the model is one such      *)
(* uninterrupted segment of a task.  The mining slice runs on its own      *)
(* thread and touches only the job's private copy of the record.           *)
(***************************************************************************)
EXTENDS Integers, Sequences, FiniteSets, TLC

(***************************************************************************)
(* Bounds of the model.                                                    *)
(***************************************************************************)
MaxNonce == 3          \* content.nonce wraps after MaxNonce (uint64 in the code)
MaxTime == 1           \* the clock reads 0..MaxTime
MaxCrashes == 1        \* process kills in one behaviour
MaxRetries == 1        \* accepted retry_message calls in one behaviour
MaxTooOld == 1         \* timestamp_too_old answers in one behaviour
MaxFetches == 2        \* check_new_mail runs in one behaviour

Servers == {1, 2}      \* mail servers the chain can name; iteration order is 1, 2
OwnPayloads == {1, 2}  \* messages the user may submit
InboundPayload == 4    \* a message another user sent to the wallet account

NonceMod == MaxNonce + 1
TimeMod == MaxTime + 1
Times == 0 .. MaxTime

(***************************************************************************)
(* message and message::id().  A content is payload, nonce, timestamp; id  *)
(* is a digest that is injective on contents (no collisions) and whose     *)
(* numeric order is what the proof-of-work compares.                       *)
(***************************************************************************)
WorkMod == 3
Content(p, n, t) == [p |-> p, n |-> n, t |-> t]
Work(c) == (c.p + c.n + c.t + 2) % WorkMod
CodeSpace == (InboundPayload + 1) * NonceMod * TimeMod
Code(c) == (c.p * NonceMod + c.n) * TimeMod + c.t + 1
Digest(c) == Work(c) * CodeSpace + Code(c)

NoTarget == 0
BTS_MAIL_PROOF_OF_WORK_TARGET == CodeSpace
BTS_MAIL_CLIENT_DATABASE_VERSION == 1
BTS_MAIL_CLIENT_MAX_INVENTORY_SIZE == 2   \* 1000 in the code (line 36), scaled down

UnknownId == 0

(***************************************************************************)
(* client::mail_status, in declaration order (status <= proof_of_work and  *)
(* status >= transmitting compare the enumerators).                        *)
(***************************************************************************)
StatusOrd(s) ==
    CASE s = "submitted" -> 0
      [] s = "proof_of_work" -> 1
      [] s = "transmitting" -> 2
      [] s = "accepted" -> 3
      [] s = "received" -> 4
      [] s = "failed" -> 5
      [] s = "canceled" -> 6

(***************************************************************************)
(* Key/value stores (level_map, cached_level_map).                         *)
(***************************************************************************)
EmptyMap == [k \in {} |-> 0]
Has(db, k) == k \in DOMAIN db
Store(db, k, v) == [x \in (DOMAIN db) \cup {k} |-> IF x = k THEN v ELSE db[x]]
Remove(db, k) == [x \in (DOMAIN db) \ {k} |-> db[x]]

VARIABLES
    isOpen,        \* _property_db.is_open()
    now,           \* last value read from the clock
    processing,    \* _processing_db : stable id -> mail_record
    archive,       \* _archive       : final id  -> mail_archive_record
    inbox,         \* _inbox         : id -> email_header
    props,         \* _property_db   : "version", "last_fetch"
    powQueue,      \* _proof_of_work_jobs
    powWorker,     \* _proof_of_work_worker: the number of worker tasks not yet finished
    pow,           \* the proof-of-work job the worker is in
    txQueue,       \* _transmit_message_jobs
    txWorker,      \* _transmit_message_worker
    tx,            \* the transmit job the worker is in, with its sub-tasks
    staleTimeouts, \* timeout tasks of transmit jobs that returned without cancelling them
    fetch,         \* check_new_mail in progress, with its sub-tasks
    server,        \* what each mail server stores: server -> set of [c, ts]
    unsent,        \* payloads the user has not submitted yet
    mailIndex,     \* _mail_index and the indexing task (_archive_indexing_future)
    call,          \* the last facade call and how it ended (observation only)
    hist           \* observation only: the budgets used up, the payloads cancelled
                   \* (cancelledInLoop: while their job was mining) and not retried
                   \* since, whether the servers, archive and inbox
                   \* were left alone during (quietRun) and since (quietPrev) the
                   \* previous check_new_mail, and how that one ended (prev),
                   \* the records open found already mined (minedAtOpen),
                   \* whether the client was destroyed

vars == <<isOpen, now, processing, archive, inbox, props, powQueue, powWorker, pow,
          txQueue, txWorker, tx, staleTimeouts, fetch, server, unsent, mailIndex,
          call, hist>>


(***************************************************************************)
(* mail_record.  id is the stable id (the processing key).                 *)
(***************************************************************************)
MailRecord(c) ==
    [id |-> Digest(c), status |-> "submitted", c |-> c, servers |-> {},
     target |-> NoTarget, reason |-> ""]
NoEmail == [id |-> UnknownId, status |-> "submitted", c |-> Content(0, 0, 0),
            servers |-> {}, target |-> NoTarget, reason |-> ""]

\* mail_archive_record(mail_record&&)
ArchiveRecord(email) ==
    [id |-> email.id, status |-> email.status, c |-> email.c, servers |-> email.servers]

Max(S) == CHOOSE x \in S : \A y \in S : y <= x

(***************************************************************************)
(* schedule_generic_task: push, then start a worker unless one is running. *)
(* A worker is counted from its creation to the end of its loop.           *)
(***************************************************************************)
\* (ScheduleGenericTaskAlways: a schedule that does not look at the future)
ScheduleGenericTaskAlways(queue, worker, data) ==
    [queue |-> Append(queue, data), worker |-> worker + 1]

\* (ScheduleGenericTaskFront: a schedule that pushes at the front)
ScheduleGenericTaskFront(queue, worker, data) ==
    [queue |-> <<data>> \o queue,
     worker |-> IF worker > 0 THEN worker ELSE worker + 1]

ScheduleGenericTask(queue, worker, data) ==
    [queue |-> Append(queue, data),
     worker |-> IF worker > 0 THEN worker ELSE worker + 1]

\* the worker's loop test after a job returned
WorkerAfterJob(queue, worker) == IF queue = <<>> THEN 0 ELSE worker

(***************************************************************************)
(* schedule_proof_of_work: the job.                                        *)
(***************************************************************************)
\* lines 358-361: the reason is chosen after status was overwritten
PowStartFailure(email) ==
    LET e1 == [email EXCEPT !.status = "failed"]
    IN [e1 EXCEPT !.reason = IF e1.status = "canceled"
                                THEN "Canceled by user."
                                ELSE "No proof of work target. Cannot do proof of work."]

\* (PowLoopMineFirst: a loop that runs a slice before it tests the id)
PowLoopMineFirst(proc, email, id, t) ==
    IF ~Has(proc, id)
    THEN [proc |-> proc, pc |-> "idle", email |-> NoEmail, enqueue |-> FALSE,
          died |-> TRUE, clock |-> FALSE]
    ELSE IF proc[id].status # "canceled"
    THEN LET e2 == [email EXCEPT !.c.t = t]
         IN [proc |-> Store(proc, e2.id, e2), pc |-> "mining", email |-> e2,
             enqueue |-> FALSE, died |-> FALSE, clock |-> TRUE]
    ELSE LET e2 == [email EXCEPT !.status = "failed", !.reason = "Canceled by user."]
         IN [proc |-> Store(proc, id, e2), pc |-> "idle", email |-> NoEmail,
             enqueue |-> FALSE, died |-> FALSE, clock |-> FALSE]

\* lines 368-399, entered at the loop test with the job's copy `email`;
\* t is the clock value blockchain::now() returns if the loop body runs.
PowLoop(proc, email, id, t) ==
    IF ~Has(proc, id)
    THEN [proc |-> proc, pc |-> "idle", email |-> NoEmail, enqueue |-> FALSE,
          died |-> TRUE, clock |-> FALSE]
    ELSE IF proc[id].status # "canceled" /\ Digest(email.c) > email.target
    THEN LET e2 == [email EXCEPT !.c.t = t]
         IN [proc |-> Store(proc, e2.id, e2), pc |-> "mining", email |-> e2,
             enqueue |-> FALSE, died |-> FALSE, clock |-> TRUE]
    ELSE IF proc[id].status = "canceled"
    THEN LET e2 == [email EXCEPT !.status = "failed", !.reason = "Canceled by user."]
         IN [proc |-> Store(proc, id, e2), pc |-> "idle", email |-> NoEmail,
             enqueue |-> FALSE, died |-> FALSE, clock |-> FALSE]
    ELSE [proc |-> Store(proc, email.id, email), pc |-> "idle", email |-> NoEmail,
          enqueue |-> TRUE, died |-> FALSE, clock |-> FALSE]

\* lines 350-364 and on into the loop
PowJob(proc, id, t) ==
    IF ~Has(proc, id)
    THEN [proc |-> proc, pc |-> "idle", email |-> NoEmail, enqueue |-> FALSE,
          died |-> TRUE, clock |-> FALSE]
    ELSE LET email == proc[id]
         IN IF email.status # "canceled" /\ email.target # NoTarget
            THEN LET e1 == [email EXCEPT !.status = "proof_of_work"]
                 IN PowLoop(Store(proc, e1.id, e1), e1, id, t)
            ELSE LET e1 == PowStartFailure(email)
                 IN [proc |-> Store(proc, e1.id, e1), pc |-> "idle", email |-> NoEmail,
                     enqueue |-> FALSE, died |-> FALSE, clock |-> FALSE]

\* lines 374-380: the nonces a slice can stop at: it increments while the id
\* is above the target, and stops when the id is at or below it or when its
\* second is over (after at least one increment).
RECURSIVE SliceNonces(_, _, _)
SliceNonces(c, target, k) ==
    IF Digest(c) <= target THEN {c.n}
    ELSE IF k = 0 THEN {}
    ELSE LET c1 == [c EXCEPT !.n = (c.n + 1) % NonceMod]
         IN {c1.n} \cup SliceNonces(c1, target, k - 1)

\* what a segment of the job leaves behind
PowSegment(r, id, queueAfter) ==
    /\ processing' = r.proc
    /\ pow' = IF r.pc = "mining" THEN [pc |-> "mining", id |-> id, email |-> r.email]
                                 ELSE [pc |-> "idle", id |-> UnknownId, email |-> NoEmail]
    /\ powQueue' = queueAfter
    /\ powWorker' = IF r.died THEN 0
                    ELSE IF r.pc = "mining" THEN powWorker
                    ELSE WorkerAfterJob(queueAfter, powWorker)
    /\ IF r.enqueue
       THEN LET s == ScheduleGenericTask(txQueue, txWorker, id)
            IN txQueue' = s.queue /\ txWorker' = s.worker
       ELSE UNCHANGED <<txQueue, txWorker>>

PowStart ==
    /\ powWorker > 0 /\ pow.pc = "idle" /\ powQueue # <<>>
    /\ \E t \in now .. MaxTime :
          LET id == Head(powQueue)
              r == PowJob(processing, id, t)
          IN /\ now' = IF r.clock THEN t ELSE now
             /\ PowSegment(r, id, Tail(powQueue))
    /\ UNCHANGED <<isOpen, archive, inbox, props, tx, staleTimeouts, fetch, server,
                   unsent, call, hist>>
    /\ UNCHANGED mailIndex

PowSlice ==
    /\ pow.pc = "mining"
    /\ \E n \in SliceNonces(pow.email.c, pow.email.target, NonceMod), t \in now .. MaxTime :
          LET e1 == [pow.email EXCEPT !.c.n = n]
              r == PowLoop(processing, e1, pow.id, t)
          IN /\ now' = IF r.clock THEN t ELSE now
             /\ PowSegment(r, pow.id, powQueue)
    /\ UNCHANGED <<isOpen, archive, inbox, props, tx, staleTimeouts, fetch, server,
                   unsent, call, hist>>
    /\ UNCHANGED mailIndex

(***************************************************************************)
(* schedule_transmit_message: the job, its sub-tasks and its timeout.      *)
(*                                                                         *)
(* A sub-task is "new" until it first runs, "io1" while it connects and    *)
(* awaits the answer to mail_store_message, "verifying" while it awaits    *)
(* the answer to mail_fetch_message, then "done" if its lambda returned    *)
(* and "threw" if an exception left it (wait() on it rethrows).            *)
(* tx.pending is the transmit_tasks vector; its back is the highest        *)
(* server.                                                                 *)
(***************************************************************************)
TaskNone == [pc |-> "none", email |-> NoEmail]
TaskDone == [pc |-> "done", email |-> NoEmail]
TaskThrew == [pc |-> "threw", email |-> NoEmail]
TxIdle == [pc |-> "idle", id |-> UnknownId, successful |-> {},
           tasks |-> [s \in Servers |-> TaskNone], pending |-> {}, timeout |-> FALSE]

FailedCopy(email, reason) == [email EXCEPT !.status = "failed", !.reason = reason]

\* successful_servers.empty() as a sub-task reads it: the set lives in the
\* job's frame, which is gone once the job was aborted by an exception.
SuccessfulEmptyValues ==
    IF tx.pc = "aborted" THEN BOOLEAN ELSE {tx.successful = {}}

\* task_future.cancel() on the tasks S.  A task cancelled inside connect_to
\* receives the cancellation in its catch (fc::exception&) block (lines
\* 428-437) and returns; the last such store wins.  Caught is the set of
\* tasks that were inside connect_to.
CancelOutcomes(proc, id, tasks, Caught, empty) ==
    IF empty /\ Caught # {}
    THEN {Store(proc, id, FailedCopy(tasks[s].email, "Canceled")) : s \in Caught}
    ELSE {proc}

\* the tasks after the cancellation: one that had not started, or was in an
\* RPC, ends with canceled_exception
Cancelled(tasks, S, Caught) ==
    [s \in Servers |->
        IF s \notin S \/ tasks[s].pc \in {"none", "done", "threw"} THEN tasks[s]
        ELSE IF s \in Caught THEN TaskDone
        ELSE TaskThrew]

Connecting(tasks, S) == {s \in S : tasks[s].pc = "io1"}

AllDone(tasks) == \A s \in Servers : tasks[s].pc \in {"none", "done", "threw"}

(***************************************************************************)
(* _mail_index, keyed by message id (ordered_unique), and the indexing     *)
(* task index_archive starts on its own thread.  todo is what the task's   *)
(* cursor over the archive has still to insert.  Nothing locks the         *)
(* container: an insert by finalize_message or by a fetch sub-task while   *)
(* the indexing task still has rows to insert is a data race, after which  *)
(* the new row may be in the container or not.                             *)
(***************************************************************************)
IndexIdle == [running |-> FALSE, todo |-> {}, rows |-> {}]

\* lines 247-252: the task is started; its cursor is over the archive as it is
IndexArchive(ix, arch) == [ix EXCEPT !.running = TRUE, !.todo = DOMAIN arch]

\* _mail_index.insert on the main thread (lines 542, 745): the containers
\* that can result
IndexInsert(ix, id) ==
    LET inserted == [ix EXCEPT !.rows = @ \cup {id}]
    IN IF id \in ix.rows THEN {ix}
       ELSE IF ix.running /\ ix.todo # {} THEN {inserted, ix}
       ELSE {inserted}

\* finalize_message, lines 536-545
FinalizeArchive(arch, email) ==
    LET e1 == [email EXCEPT !.id = Digest(email.c), !.status = "accepted"]
    IN Store(arch, e1.id, ArchiveRecord(e1))

\* a finalize_message that keeps the record, marked accepted
FinalizeProcessingKept(proc, id) == Store(proc, id, [proc[id] EXCEPT !.status = "accepted"])

\* line 544: the processing store after finalize_message
FinalizeProcessing(proc, id) == Remove(proc, id)

\* lines 406-415 and the launch of the sub-tasks and the timeout
TxStart ==
    /\ txWorker > 0 /\ tx.pc = "idle" /\ txQueue # <<>>
    /\ LET id == Head(txQueue)
       IN /\ txQueue' = Tail(txQueue)
          /\ IF ~Has(processing, id)
             THEN /\ txWorker' = 0
                  /\ UNCHANGED <<processing, tx>>
             ELSE LET email == processing[id]
                  IN IF email.servers = {}
                     THEN /\ processing' = Store(processing, id,
                                 FailedCopy(email, "No mail servers found when trying to transmit message."))
                          /\ txWorker' = WorkerAfterJob(Tail(txQueue), txWorker)
                          /\ UNCHANGED tx
                     ELSE /\ processing' = Store(processing, id,
                                                 [email EXCEPT !.status = "transmitting"])
                          /\ tx' = [pc |-> "wait", id |-> id, successful |-> {},
                                    tasks |-> [s \in Servers |->
                                                 IF s \in email.servers
                                                 THEN [pc |-> "new", email |-> NoEmail]
                                                 ELSE TaskNone],
                                    pending |-> email.servers, timeout |-> TRUE]
                          /\ UNCHANGED txWorker
    /\ UNCHANGED <<isOpen, now, archive, inbox, props, powQueue, powWorker, pow,
                   staleTimeouts, fetch, server, unsent, call, hist>>
    /\ UNCHANGED mailIndex

TxFrame == <<isOpen, now, archive, inbox, props, powQueue, powWorker, pow, txQueue,
             txWorker, staleTimeouts, fetch, unsent, mailIndex, call, hist>>

\* line 423
TaskStart(s) ==
    /\ tx.pc \in {"wait", "aborted"} /\ tx.tasks[s].pc = "new"
    /\ tx' = [tx EXCEPT !.tasks[s] =
                 IF Has(processing, tx.id)
                 THEN [pc |-> "io1", email |-> processing[tx.id]]
                 ELSE TaskThrew]
    /\ UNCHANGED <<processing, server>>
    /\ UNCHANGED TxFrame

\* lines 426-437
TaskConnectFail(s) ==
    /\ tx.pc \in {"wait", "aborted"} /\ tx.tasks[s].pc = "io1"
    /\ \E empty \in SuccessfulEmptyValues :
          processing' = IF empty
                        THEN Store(processing, tx.id,
                                   FailedCopy(tx.tasks[s].email, "connect failed"))
                        ELSE processing
    /\ tx' = [tx EXCEPT !.tasks[s] = TaskDone]
    /\ UNCHANGED server
    /\ UNCHANGED TxFrame

Stored(s, c) == \E e \in server[s] : e.c = c

\* lines 457-462
TaskAlreadyStored(s) ==
    /\ tx.pc \in {"wait", "aborted"} /\ tx.tasks[s].pc = "io1"
    /\ Stored(s, tx.tasks[s].email.c)
    /\ tx' = [tx EXCEPT !.tasks[s] = TaskDone, !.successful = @ \cup {s}]
    /\ UNCHANGED <<processing, server>>
    /\ UNCHANGED TxFrame

\* lines 452-456, 463-472
TimestampTooOld(email) ==
    [email EXCEPT !.status = "proof_of_work", !.reason = "timestamp_too_old",
                  !.c.n = (@ + 1) % NonceMod]

TaskTooOld(s) ==
    /\ tx.pc \in {"wait", "aborted"} /\ tx.tasks[s].pc = "io1"
    /\ ~Stored(s, tx.tasks[s].email.c)
    /\ hist.tooOld < MaxTooOld
    /\ processing' = Store(processing, tx.id, TimestampTooOld(tx.tasks[s].email))
    /\ tx' = [tx EXCEPT !.tasks[s] = TaskDone]
    /\ hist' = [hist EXCEPT !.tooOld = @ + 1]
    /\ UNCHANGED <<isOpen, now, archive, inbox, props, powQueue, powWorker, pow, txQueue,
                   txWorker, staleTimeouts, fetch, unsent, call, server>>
    /\ UNCHANGED mailIndex

\* lines 452-456, 468-472
TaskRejected(s) ==
    /\ tx.pc \in {"wait", "aborted"} /\ tx.tasks[s].pc = "io1"
    /\ ~Stored(s, tx.tasks[s].email.c)
    /\ processing' = Store(processing, tx.id, FailedCopy(tx.tasks[s].email, "server error"))
    /\ tx' = [tx EXCEPT !.tasks[s] = TaskDone]
    /\ UNCHANGED server
    /\ UNCHANGED TxFrame

\* a mail server takes a message only if its id is at or below the target
ServerAccepts(c) == Digest(c) <= BTS_MAIL_PROOF_OF_WORK_TARGET

\* the server stores the message and answers without error; lines 475-479
TaskStored(s) ==
    /\ tx.pc \in {"wait", "aborted"} /\ tx.tasks[s].pc = "io1"
    /\ ~Stored(s, tx.tasks[s].email.c)
    /\ ServerAccepts(tx.tasks[s].email.c)
    /\ \E t \in now .. MaxTime :
          /\ now' = t
          /\ server' = [server EXCEPT ![s] = @ \cup {[c |-> tx.tasks[s].email.c, ts |-> t]}]
    /\ tx' = [tx EXCEPT !.tasks[s].pc = "verifying"]
    /\ UNCHANGED <<isOpen, processing, archive, inbox, props, powQueue, powWorker, pow,
                   txQueue, txWorker, staleTimeouts, fetch, unsent, call>>
    /\ hist' = [hist EXCEPT !.quietRun = FALSE, !.quietPrev = FALSE]
    /\ UNCHANGED mailIndex

\* lines 486, 498
TaskVerified(s) ==
    /\ tx.pc \in {"wait", "aborted"} /\ tx.tasks[s].pc = "verifying"
    /\ tx' = [tx EXCEPT !.tasks[s] = TaskDone, !.successful = @ \cup {s}]
    /\ UNCHANGED <<processing, server>>
    /\ UNCHANGED TxFrame

\* lines 486-496
TaskWrongMessage(s) ==
    /\ tx.pc \in {"wait", "aborted"} /\ tx.tasks[s].pc = "verifying"
    /\ processing' = Store(processing, tx.id,
                           FailedCopy(tx.tasks[s].email, "wrong message"))
    /\ tx' = [tx EXCEPT !.tasks[s] = TaskDone]
    /\ UNCHANGED server
    /\ UNCHANGED TxFrame

\* lines 502-514.  The lambda captures by copy: its successful_servers is the
\* (empty) set as it was when the timeout was scheduled.
TimeoutMarks(proc, id) ==
    IF StatusOrd(proc[id].status) >= StatusOrd("transmitting")
    THEN Store(proc, id, FailedCopy(proc[id], "Timed out while transmitting message."))
    ELSE proc

TxTimeout ==
    /\ tx.pc \in {"wait", "aborted"} /\ tx.timeout
    /\ IF ~Has(processing, tx.id)
       THEN /\ tx' = [tx EXCEPT !.timeout = FALSE]
            /\ UNCHANGED processing
       ELSE \E empty \in SuccessfulEmptyValues,
               Caught \in SUBSET Connecting(tx.tasks, Servers) :
               /\ processing' \in CancelOutcomes(TimeoutMarks(processing, tx.id), tx.id,
                                                  tx.tasks, Caught, empty)
               /\ tx' = [tx EXCEPT !.timeout = FALSE,
                                   !.tasks = Cancelled(tx.tasks, Servers, Caught)]
    /\ UNCHANGED server
    /\ UNCHANGED TxFrame

\* the timeout of a job that returned on line 522 without cancelling it
StaleTimeout(id) ==
    /\ id \in staleTimeouts
    /\ staleTimeouts' = staleTimeouts \ {id}
    /\ processing' = IF Has(processing, id) THEN TimeoutMarks(processing, id) ELSE processing
    /\ UNCHANGED <<isOpen, now, archive, inbox, props, powQueue, powWorker, pow, txQueue,
                   txWorker, tx, fetch, server, unsent, call, hist>>
    /\ UNCHANGED mailIndex

\* lines 516-525: the loop until it has to wait again
RECURSIVE Reduce(_, _, _, _)
Reduce(proc, id, tasks, pending) ==
    IF pending = {} THEN [kind |-> "finish", pending |-> pending]
    ELSE IF tasks[Max(pending)].pc \notin {"done", "threw"}
    THEN [kind |-> "suspend", pending |-> pending]
    ELSE IF tasks[Max(pending)].pc = "threw" \/ ~Has(proc, id)
    THEN [kind |-> "abort", pending |-> pending]
    ELSE IF proc[id].status = "failed" THEN [kind |-> "failed", pending |-> pending]
    ELSE Reduce(proc, id, tasks, pending \ {Max(pending)})

\* lines 516-532, resumed when the task at the back has finished
TxReduce ==
    /\ tx.pc = "wait" /\ tx.pending # {}
    /\ tx.tasks[Max(tx.pending)].pc \in {"done", "threw"}
    /\ LET r == Reduce(processing, tx.id, tx.tasks, tx.pending)
           stale == IF tx.timeout THEN staleTimeouts \cup {tx.id} ELSE staleTimeouts
       IN CASE r.kind = "suspend" ->
                 /\ tx' = [tx EXCEPT !.pending = r.pending]
                 /\ UNCHANGED <<processing, archive, txWorker, staleTimeouts, mailIndex,
                                hist>>
            [] r.kind = "abort" ->
                 /\ txWorker' = 0
                 /\ IF AllDone(tx.tasks)
                    THEN tx' = TxIdle /\ staleTimeouts' = stale
                    ELSE tx' = [tx EXCEPT !.pc = "aborted", !.pending = {}]
                         /\ UNCHANGED staleTimeouts
                 /\ UNCHANGED <<processing, archive, mailIndex, hist>>
            [] r.kind = "failed" ->
                 /\ \E Caught \in SUBSET Connecting(tx.tasks, r.pending) :
                       processing' \in CancelOutcomes(processing, tx.id, tx.tasks,
                                                      Caught, tx.successful = {})
                 /\ tx' = TxIdle
                 /\ staleTimeouts' = stale
                 /\ txWorker' = WorkerAfterJob(txQueue, txWorker)
                 /\ UNCHANGED <<archive, mailIndex, hist>>
            [] r.kind = "finish" ->
                 /\ tx' = TxIdle
                 /\ txWorker' = WorkerAfterJob(txQueue, txWorker)
                 /\ UNCHANGED staleTimeouts
                 /\ IF tx.successful # {}
                    THEN LET e1 == [processing[tx.id] EXCEPT !.servers = tx.successful]
                         IN /\ mailIndex' \in IndexInsert(mailIndex, Digest(e1.c))
                            /\ archive' = FinalizeArchive(archive, e1)
                            /\ processing' = FinalizeProcessing(Store(processing, tx.id, e1),
                                                                tx.id)
                            /\ hist' = [hist EXCEPT !.quietRun = FALSE, !.quietPrev = FALSE]
                    ELSE UNCHANGED <<processing, archive, mailIndex, hist>>
    /\ UNCHANGED <<isOpen, now, inbox, props, powQueue, powWorker, pow, txQueue, fetch,
                   server, unsent, call>>

\* the sub-tasks of an aborted job have all ended
OrphansDone ==
    /\ tx.pc = "aborted" /\ AllDone(tx.tasks)
    /\ tx' = TxIdle
    /\ staleTimeouts' = IF tx.timeout THEN staleTimeouts \cup {tx.id} ELSE staleTimeouts
    /\ UNCHANGED <<isOpen, now, processing, archive, inbox, props, powQueue, powWorker,
                   pow, txQueue, txWorker, fetch, server, unsent, call, hist>>
    /\ UNCHANGED mailIndex

(***************************************************************************)
(* process_outgoing_mail and get_proof_of_work_target.  srv is what        *)
(* get_mail_servers_for_recipient resolves from the chain at this call.    *)
(* (ProcessOutgoingMailUnqueued: a dispatch that stores the record and     *)
(* schedules no proof of work.)                                            *)
(***************************************************************************)
ProcessOutgoingMailUnqueued(proc, mail, srv) ==
    LET m1 == [mail EXCEPT !.servers = srv]
    IN [proc |-> Store(proc, m1.id,
                       IF srv = {}
                       THEN FailedCopy(m1, "Could not find mail servers for this recipient.")
                       ELSE [m1 EXCEPT !.target = BTS_MAIL_PROOF_OF_WORK_TARGET]),
        enqueue |-> FALSE]

ProcessOutgoingMail(proc, mail, srv) ==
    LET m1 == [mail EXCEPT !.servers = srv]
        proc1 == Store(proc, m1.id, m1)
    IN IF m1.servers = {}
       THEN [proc |-> Store(proc1, m1.id,
                            FailedCopy(m1, "Could not find mail servers for this recipient.")),
             enqueue |-> FALSE]
       ELSE [proc |-> Store(proc1, m1.id,
                            [m1 EXCEPT !.target = BTS_MAIL_PROOF_OF_WORK_TARGET]),
             enqueue |-> TRUE]

\* the pipeline after process_outgoing_mail returned r for message id
Submitted(r, id) ==
    /\ processing' = r.proc
    /\ IF r.enqueue
       THEN LET s == ScheduleGenericTask(powQueue, powWorker, id)
            IN powQueue' = s.queue /\ powWorker' = s.worker
       ELSE UNCHANGED <<powQueue, powWorker>>

(***************************************************************************)
(* The facade.  o says whether the call and its outcome are recorded in    *)
(* `call`; res is "ok" when the call returns and "error" when it throws.   *)
(***************************************************************************)
NoCall == [op |-> "none", id |-> UnknownId, res |-> "none", seq |-> 0]
Observe(o, op, id, res) ==
    IF o THEN [op |-> op, id |-> id, res |-> res, seq |-> 1 - call.seq] ELSE NoCall

CallIds == (DOMAIN processing) \cup (DOMAIN archive) \cup (DOMAIN inbox) \cup {UnknownId}

\* client::send_email, client::send_encrypted_message: a fresh mail_record
Send(o) ==
    /\ isOpen
    /\ \E p \in unsent, srv \in SUBSET Servers, t \in now .. MaxTime :
          LET mail == MailRecord(Content(p, 0, t))
          IN /\ now' = t
             /\ unsent' = unsent \ {p}
             /\ Submitted(ProcessOutgoingMail(processing, mail, srv), mail.id)
             /\ call' = Observe(o, "send", mail.id, "ok")
    /\ UNCHANGED <<isOpen, archive, inbox, props, pow, txQueue, txWorker, tx,
                   staleTimeouts, fetch, server, hist>>
    /\ UNCHANGED mailIndex

\* the same two calls when a precondition fails (lines 866-868, 872, 890-891:
\* wallet closed or locked, client not open, recipient not on the chain,
\* message not encrypted): the FC_ASSERT throws before anything is built
SendRejected(o) ==
    /\ call' = Observe(o, "send", UnknownId, "error")
    /\ UNCHANGED <<isOpen, now, processing, archive, inbox, props, powQueue, powWorker,
                   pow, txQueue, txWorker, tx, staleTimeouts, fetch, server, unsent,
                   mailIndex, hist>>

\* client::retry_message
RetryMessage(o) ==
    \E id \in CallIds :
       IF isOpen /\ Has(processing, id) /\ processing[id].status = "failed"
       THEN /\ hist.retries < MaxRetries
            /\ \E srv \in SUBSET Servers :
                 Submitted(ProcessOutgoingMail(processing,
                              [processing[id] EXCEPT !.status = "submitted"], srv), id)
            /\ hist' = [hist EXCEPT !.cancelled = @ \ {processing[id].c.p},
                                    !.cancelledInLoop = @ \ {processing[id].c.p},
                                    !.retries = @ + 1]
            /\ call' = Observe(o, "retry", id, "ok")
            /\ UNCHANGED <<isOpen, now, archive, inbox, props, pow, txQueue, txWorker, tx,
                           staleTimeouts, fetch, server, unsent, mailIndex>>
       ELSE /\ call' = Observe(o, "retry", id, "error")
            /\ UNCHANGED <<isOpen, now, processing, archive, inbox, props, powQueue,
                           powWorker, pow, txQueue, txWorker, tx, staleTimeouts, fetch,
                           server, unsent, mailIndex, hist>>

\* a cancel_message that accepts a record of any status
CancelMessageAnyStatus(o) ==
    \E id \in CallIds :
       /\ IF isOpen /\ Has(processing, id)
          THEN /\ processing' = Store(processing, id,
                                      [processing[id] EXCEPT !.status = "canceled"])
               /\ hist' = [hist EXCEPT !.cancelled = @ \cup {processing[id].c.p}]
               /\ call' = Observe(o, "cancel", id, "ok")
          ELSE /\ call' = Observe(o, "cancel", id, IF isOpen THEN "ok" ELSE "error")
               /\ UNCHANGED <<processing, hist>>
       /\ UNCHANGED <<isOpen, now, archive, inbox, props, powQueue, powWorker, pow,
                      txQueue, txWorker, tx, staleTimeouts, fetch, server, unsent,
                      mailIndex>>

\* a cancel_message that writes the record before it tests the status
CancelMessageEager(o) ==
    \E id \in CallIds :
       /\ IF isOpen /\ Has(processing, id)
          THEN /\ processing' = Store(processing, id,
                                      [processing[id] EXCEPT !.status = "canceled"])
               /\ call' = Observe(o, "cancel", id,
                                  IF StatusOrd(processing[id].status) <= StatusOrd("proof_of_work")
                                  THEN "ok" ELSE "error")
          ELSE /\ call' = Observe(o, "cancel", id, IF isOpen THEN "ok" ELSE "error")
               /\ UNCHANGED processing
       /\ UNCHANGED <<isOpen, now, archive, inbox, props, powQueue, powWorker, pow,
                      txQueue, txWorker, tx, staleTimeouts, fetch, server, unsent,
                      mailIndex, hist>>

\* client::cancel_message
CancelMessage(o) ==
    \E id \in CallIds :
       /\ IF isOpen /\ Has(processing, id)
             /\ StatusOrd(processing[id].status) <= StatusOrd("proof_of_work")
          THEN /\ processing' = Store(processing, id,
                                      [processing[id] EXCEPT !.status = "canceled"])
               /\ hist' = [hist EXCEPT
                             !.cancelled = @ \cup {processing[id].c.p},
                             !.cancelledInLoop =
                                 IF pow.pc = "mining" /\ pow.id = id
                                 THEN @ \cup {processing[id].c.p} ELSE @]
               /\ call' = Observe(o, "cancel", id, "ok")
          ELSE /\ call' = Observe(o, "cancel", id,
                                  IF isOpen /\ ~Has(processing, id) THEN "ok" ELSE "error")
               /\ UNCHANGED <<processing, hist>>
       /\ UNCHANGED <<isOpen, now, archive, inbox, props, powQueue, powWorker, pow,
                      txQueue, txWorker, tx, staleTimeouts, fetch, server, unsent>>
       /\ UNCHANGED mailIndex

\* a removal that does not look at the status
RemovableAlways(email) == TRUE

\* line 815
Removable(email) == email.status = "failed"

\* client::remove_message
RemoveMessage(o) ==
    \E id \in CallIds :
       /\ IF ~isOpen
          THEN /\ call' = Observe(o, "remove", id, "error")
               /\ UNCHANGED <<processing, archive, hist>>
          ELSE IF Has(processing, id)
          THEN IF Removable(processing[id])
               THEN /\ processing' = Remove(processing, id)
                    /\ call' = Observe(o, "remove", id, "ok")
                    /\ UNCHANGED <<archive, hist>>
               ELSE /\ call' = Observe(o, "remove", id, "error")
                    /\ UNCHANGED <<processing, archive, hist>>
          ELSE /\ archive' = IF Has(archive, id) THEN Remove(archive, id) ELSE archive
               /\ hist' = [hist EXCEPT !.quietRun = FALSE, !.quietPrev = FALSE]
               /\ call' = Observe(o, "remove", id, "ok")
               /\ UNCHANGED processing
       /\ UNCHANGED <<isOpen, now, inbox, props, powQueue, powWorker, pow, txQueue,
                      txWorker, tx, staleTimeouts, fetch, server, unsent>>
       /\ UNCHANGED mailIndex

\* (ArchiveMessageFromArchive: an archive_message that deletes the archive
\* record and keeps the inbox record)
ArchiveMessageFromArchive(o) ==
    \E id \in CallIds :
       /\ IF isOpen
          THEN /\ archive' = IF Has(archive, id) THEN Remove(archive, id) ELSE archive
               /\ hist' = [hist EXCEPT !.quietRun = FALSE, !.quietPrev = FALSE]
               /\ call' = Observe(o, "archive", id, "ok")
          ELSE /\ call' = Observe(o, "archive", id, "error")
               /\ UNCHANGED <<archive, hist>>
       /\ UNCHANGED <<isOpen, now, processing, inbox, props, powQueue, powWorker, pow,
                      txQueue, txWorker, tx, staleTimeouts, fetch, server, unsent,
                      mailIndex>>

\* client::archive_message, client_impl::archive_message
ArchiveMessage(o) ==
    \E id \in CallIds :
       /\ IF isOpen
          THEN /\ inbox' = IF Has(inbox, id) THEN Remove(inbox, id) ELSE inbox
               /\ hist' = [hist EXCEPT !.quietRun = FALSE, !.quietPrev = FALSE]
               /\ call' = Observe(o, "archive", id, "ok")
          ELSE /\ call' = Observe(o, "archive", id, "error")
               /\ UNCHANGED <<inbox, hist>>
       /\ UNCHANGED <<isOpen, now, processing, archive, props, powQueue, powWorker, pow,
                      txQueue, txWorker, tx, staleTimeouts, fetch, server, unsent>>
       /\ UNCHANGED mailIndex

(***************************************************************************)
(* client_impl::open and client_impl::retry_message (the dispatch).        *)
(***************************************************************************)
\* one record of the loop on lines 233-234; st is [proc, powQ, powW, txQ, txW]
Dispatch(st, email, srv) ==
    CASE email.status = "submitted" ->
            LET r == ProcessOutgoingMail(st.proc, email, srv)
                s == ScheduleGenericTask(st.powQ, st.powW, email.id)
            IN IF r.enqueue
               THEN [st EXCEPT !.proc = r.proc, !.powQ = s.queue, !.powW = s.worker]
               ELSE [st EXCEPT !.proc = r.proc]
      [] email.status = "proof_of_work" ->
            LET s == ScheduleGenericTask(st.powQ, st.powW, email.id)
            IN [st EXCEPT !.powQ = s.queue, !.powW = s.worker]
      [] email.status = "transmitting" ->
            LET s == ScheduleGenericTask(st.txQ, st.txW, email.id)
            IN [st EXCEPT !.txQ = s.queue, !.txW = s.worker]
      [] OTHER -> st

RECURSIVE DispatchAll(_, _, _)
DispatchAll(st, keys, choice) ==
    IF keys = {} THEN st
    ELSE LET k == CHOOSE x \in keys : \A y \in keys : x <= y
         IN DispatchAll(Dispatch(st, st.proc[k], choice[k]), keys \ {k}, choice)

NoVersion == 0

\* a record stored by the last store of a proof-of-work job (line 397): its
\* content id is at or below its target
MinedRecord(email) ==
    /\ email.status = "proof_of_work"
    /\ email.target # NoTarget
    /\ Digest(email.c) <= email.target

OpenStores ==
    /\ ~isOpen
    /\ LET version == IF props.version = NoVersion
                      THEN BTS_MAIL_CLIENT_DATABASE_VERSION ELSE props.version
       IN /\ props' = [props EXCEPT !.version = version]
          /\ IF version # BTS_MAIL_CLIENT_DATABASE_VERSION
             THEN UNCHANGED <<isOpen, processing, powQueue, powWorker, txQueue, txWorker,
                              mailIndex, hist>>
             ELSE \E choice \in [DOMAIN processing -> SUBSET Servers] :
                     LET st == DispatchAll([proc |-> processing, powQ |-> powQueue,
                                            powW |-> powWorker, txQ |-> txQueue,
                                            txW |-> txWorker],
                                           DOMAIN processing, choice)
                     IN /\ \A k \in DOMAIN processing :
                              processing[k].status # "submitted" => choice[k] = {}
                        /\ isOpen' = TRUE
                        /\ mailIndex' = IndexArchive(mailIndex, archive)
                        /\ processing' = st.proc
                        /\ powQueue' = st.powQ /\ powWorker' = st.powW
                        /\ txQueue' = st.txQ /\ txWorker' = st.txW
                        /\ hist' = [hist EXCEPT !.minedAtOpen =
                                       {k \in DOMAIN processing : MinedRecord(processing[k])}]
    /\ UNCHANGED <<now, archive, inbox, pow, tx, staleTimeouts, fetch, server, unsent>>

\* client::open, line 783
Open == OpenStores /\ UNCHANGED call

\* client::open with its outcome recorded: the catch (...) on lines 237-241
\* ends every exception, so the call returns normally
OpenCall == OpenStores /\ call' = Observe(TRUE, "open", UnknownId, "ok")

(***************************************************************************)
(* The mail servers (external): what mail_fetch_inventory answers.         *)
(***************************************************************************)
RECURSIVE SortedIds(_)
SortedIds(entries) ==
    IF entries = {} THEN <<>>
    ELSE LET e == CHOOSE x \in entries :
                    \A y \in entries :
                       x.ts < y.ts \/ (x.ts = y.ts /\ Digest(x.c) <= Digest(y.c))
         IN <<Digest(e.c)>> \o SortedIds(entries \ {e})

Prefix(seq, n) == IF Len(seq) <= n THEN seq ELSE SubSeq(seq, 1, n)

Inventory(entries, since, max) ==
    Prefix(SortedIds({e \in entries : e.ts >= since}), max)

InboundContent == Content(InboundPayload, 0, 0)

\* another user's message reaches server s
ServerReceives(s) ==
    /\ ~Stored(s, InboundContent)
    /\ \E t \in now .. MaxTime :
          /\ now' = t
          /\ server' = [server EXCEPT ![s] = @ \cup {[c |-> InboundContent, ts |-> t]}]
    /\ hist' = [hist EXCEPT !.quietRun = FALSE, !.quietPrev = FALSE]
    /\ UNCHANGED <<isOpen, processing, archive, inbox, props, powQueue, powWorker, pow,
                   txQueue, txWorker, tx, staleTimeouts, fetch, unsent, call>>
    /\ UNCHANGED mailIndex

(***************************************************************************)
(* check_new_mail for the wallet's account.                                *)
(***************************************************************************)
NoTime == -1
RegistrationDate == 0

\* a fetch sub-task is "new" until the first inventory arrives, "inv" while
\* it awaits a further page, "msgs" while it awaits a message, then "done" if
\* its lambda returned and "threw" if an exception left it
FetchTaskNone == [pc |-> "none", page |-> <<>>, received |-> 0, ok |-> FALSE, merged |-> {}]
FetchIdle == [pc |-> "idle", old |-> FALSE, servers |-> {}, lastCheck |-> 0,
              checkTime |-> 0, tasks |-> [s \in Servers |-> FetchTaskNone],
              timeout |-> FALSE, messagesIn |-> 0, inbox0 |-> {}, known0 |-> {}]
NoPrev == [ran |-> FALSE, complete |-> FALSE, servers |-> {}, old |-> FALSE, quiet |-> FALSE]

\* lines 635-639
LastCheckTime(old) ==
    IF ~old /\ props.lastFetch # NoTime THEN props.lastFetch ELSE RegistrationDate

\* lines 763-772: every sub-task has ended.  wait() rethrows the exception
\* of a sub-task, and then last_fetch is not stored.
FetchFinish(f, quiet) ==
    /\ props' = IF \E s \in f.servers : f.tasks[s].pc = "threw"
                THEN props
                ELSE [props EXCEPT !.lastFetch = f.checkTime]
    /\ fetch' = FetchIdle
    /\ hist' = [hist EXCEPT
                  !.fetchLeft = @ - 1,
                  !.prev = [ran |-> TRUE,
                            complete |-> \A s \in f.servers : f.tasks[s].ok,
                            servers |-> f.servers, old |-> f.old, quiet |-> quiet],
                  !.quietPrev = TRUE]

\* lines 626-641, 756: up to the first wait
CheckNewMail(o) ==
    /\ isOpen /\ fetch.pc = "idle" /\ hist.fetchLeft > 0
    /\ \E old \in BOOLEAN, srv \in SUBSET Servers, t \in now .. MaxTime :
          LET f == [pc |-> "run", old |-> old, servers |-> srv,
                    lastCheck |-> LastCheckTime(old), checkTime |-> t,
                    tasks |-> [s \in Servers |->
                                 IF s \in srv
                                 THEN [FetchTaskNone EXCEPT !.pc = "new"]
                                 ELSE FetchTaskNone],
                    timeout |-> TRUE, messagesIn |-> 0,
                    inbox0 |-> DOMAIN inbox, known0 |-> DOMAIN archive]
          IN /\ now' = t
             /\ call' = Observe(o, "check", UnknownId, IF srv = {} THEN "ok" ELSE "none")
             /\ IF srv = {}
                THEN FetchFinish(f, TRUE)
                ELSE /\ fetch' = f
                     /\ hist' = [hist EXCEPT !.quietRun = TRUE]
                     /\ UNCHANGED props
    /\ UNCHANGED <<isOpen, processing, archive, inbox, powQueue, powWorker, pow, txQueue,
                   txWorker, tx, staleTimeouts, server, unsent>>
    /\ UNCHANGED mailIndex

FetchFrame == <<isOpen, now, processing, props, powQueue, powWorker, pow, txQueue,
                txWorker, tx, staleTimeouts, server, unsent, call, hist>>

\* lines 650-656
FetchConnectFail(s) ==
    /\ fetch.pc = "run" /\ fetch.tasks[s].pc = "new"
    /\ fetch' = [fetch EXCEPT !.tasks[s].pc = "done"]
    /\ UNCHANGED <<archive, inbox>>
    /\ UNCHANGED FetchFrame
    /\ UNCHANGED mailIndex

\* lines 675-680 and 697-702: the server answers with an error
FetchServerError(s) ==
    /\ fetch.pc = "run" /\ fetch.tasks[s].pc \in {"new", "inv", "msgs"}
    /\ fetch' = [fetch EXCEPT !.tasks[s].pc = "done", !.tasks[s].page = <<>>]
    /\ UNCHANGED <<archive, inbox>>
    /\ UNCHANGED FetchFrame
    /\ UNCHANGED mailIndex

\* the loop test on line 659 once the page is used up
AfterPage(task) ==
    IF task.page # <<>> THEN [task EXCEPT !.pc = "msgs"]
    ELSE IF task.received = BTS_MAIL_CLIENT_MAX_INVENTORY_SIZE
    THEN [task EXCEPT !.pc = "inv"]
    ELSE [task EXCEPT !.pc = "done", !.ok = TRUE]

\* lines 660-683: the inventory since last_check_time arrives
FetchInventory(s) ==
    /\ fetch.pc = "run" /\ fetch.tasks[s].pc \in {"new", "inv"}
    /\ LET page == Inventory(server[s], fetch.lastCheck, BTS_MAIL_CLIENT_MAX_INVENTORY_SIZE)
       IN fetch' = [fetch EXCEPT !.tasks[s] =
                       AfterPage([@ EXCEPT !.page = page, !.received = Len(page)])]
    /\ UNCHANGED <<archive, inbox>>
    /\ UNCHANGED FetchFrame
    /\ UNCHANGED mailIndex

\* a merge that forgets the servers already recorded
MergeRecordFresh(arch, c, s) ==
    [id |-> Digest(c), status |-> "received", c |-> c, servers |-> {s}]

\* lines 729-742: the archive record to store for message c fetched from s
MergeRecord(arch, c, s) ==
    LET id == Digest(c)
        fresh == [id |-> id, status |-> "received", c |-> c, servers |-> {}]
        record == IF Has(arch, id)
                  THEN [arch[id] EXCEPT !.status = IF @ = "accepted" THEN "received" ELSE @]
                  ELSE fresh
    IN [record EXCEPT !.servers = @ \cup {s}]

\* every fetched message counted as new
NewMailAlways(arch, c) == TRUE

\* lines 727-738: new_mail
NewMail(arch, c) ==
    ~Has(arch, Digest(c)) \/ arch[Digest(c)].status = "accepted"

Header(c) == [id |-> Digest(c)]

\* lines 685-751: one message of the page arrives and is merged
FetchMessage(s) ==
    /\ fetch.pc = "run" /\ fetch.tasks[s].pc = "msgs"
    /\ LET id == Head(fetch.tasks[s].page)
           c == (CHOOSE e \in server[s] : Digest(e.c) = id).c
           new == NewMail(archive, c)
       IN /\ archive' = Store(archive, id, MergeRecord(archive, c, s))
          /\ mailIndex' \in IndexInsert(mailIndex, Header(c).id)
          /\ inbox' = IF new THEN Store(inbox, id, Header(c)) ELSE inbox
          /\ fetch' = [fetch EXCEPT
                         !.messagesIn = IF new THEN @ + 1 ELSE @,
                         !.tasks[s] = AfterPage([@ EXCEPT !.page = Tail(@),
                                                          !.merged = @ \cup {id}])]
    /\ UNCHANGED FetchFrame

\* lines 756-761.  A task cancelled inside connect_to catches it (lines
\* 650-656) and returns; one that had not started, or was in an RPC, ends
\* with canceled_exception.
FetchTimeout ==
    /\ fetch.pc = "run" /\ fetch.timeout
    /\ \E Caught \in SUBSET {s \in Servers : fetch.tasks[s].pc = "new"} :
          fetch' = [fetch EXCEPT
                      !.timeout = FALSE,
                      !.tasks = [s \in Servers |->
                                   IF fetch.tasks[s].pc \in {"none", "done", "threw"}
                                   THEN fetch.tasks[s]
                                   ELSE [fetch.tasks[s] EXCEPT
                                           !.pc = IF s \in Caught THEN "done" ELSE "threw",
                                           !.page = <<>>]]]
    /\ UNCHANGED <<archive, inbox>>
    /\ UNCHANGED FetchFrame
    /\ UNCHANGED mailIndex

FetchEnded(f) ==
    f.pc = "run" /\ \A s \in Servers : f.tasks[s].pc \in {"none", "done", "threw"}

\* lines 763-772
FetchEnd ==
    /\ FetchEnded(fetch)
    /\ FetchFinish(fetch, hist.quietRun)
    /\ call' = IF call.op = "check"
               THEN [call EXCEPT !.res = IF \E s \in Servers : fetch.tasks[s].pc = "threw"
                                         THEN "error" ELSE "ok"]
               ELSE call
    /\ UNCHANGED <<isOpen, now, processing, archive, inbox, powQueue, powWorker, pow,
                   txQueue, txWorker, tx, staleTimeouts, server, unsent>>
    /\ UNCHANGED mailIndex

\* lines 249-250: the indexing task inserts the next record of its cursor, or
\* ends when the cursor is exhausted
IndexStep ==
    /\ mailIndex.running
    /\ mailIndex' = IF mailIndex.todo = {}
                    THEN [mailIndex EXCEPT !.running = FALSE]
                    ELSE LET id == CHOOSE x \in mailIndex.todo :
                                      \A y \in mailIndex.todo : x <= y
                         IN [mailIndex EXCEPT !.todo = @ \ {id}, !.rows = @ \cup {id}]
    /\ UNCHANGED <<isOpen, now, processing, archive, inbox, props, powQueue, powWorker,
                   pow, txQueue, txWorker, tx, staleTimeouts, fetch, server, unsent, call,
                   hist>>

\* a later message of another user (mined by its sender: its id meets the
\* target) reaches server s
LaterInboundContent == Content(InboundPayload, WorkMod, 0)

ServerReceivesLater(s) ==
    /\ ~Stored(s, LaterInboundContent)
    /\ \E t \in now .. MaxTime :
          /\ now' = t
          /\ server' = [server EXCEPT ![s] = @ \cup {[c |-> LaterInboundContent, ts |-> t]}]
    /\ hist' = [hist EXCEPT !.quietRun = FALSE, !.quietPrev = FALSE]
    /\ UNCHANGED <<isOpen, processing, archive, inbox, props, powQueue, powWorker, pow,
                   txQueue, txWorker, tx, staleTimeouts, fetch, unsent, mailIndex, call>>

(***************************************************************************)
(* The process is killed.  What was stored stays; failure_reason is not a  *)
(* reflected member of mail_record (FC_REFLECT, line 979) and is not on    *)
(* disk.                                                                   *)
(***************************************************************************)
OnDisk(proc) == [k \in DOMAIN proc |-> [proc[k] EXCEPT !.reason = ""]]

Crash ==
    /\ isOpen /\ hist.crashes < MaxCrashes
    /\ isOpen' = FALSE
    /\ processing' = OnDisk(processing)
    /\ powQueue' = <<>> /\ powWorker' = 0 /\ pow' = [pc |-> "idle", id |-> UnknownId, email |-> NoEmail]
    /\ txQueue' = <<>> /\ txWorker' = 0 /\ tx' = TxIdle
    /\ staleTimeouts' = {}
    /\ fetch' = FetchIdle
    /\ mailIndex' = IndexIdle
    /\ call' = NoCall
    /\ hist' = [hist EXCEPT !.crashes = @ + 1, !.quietRun = FALSE, !.quietPrev = FALSE]
    /\ UNCHANGED <<now, archive, inbox, props, server, unsent>>

(***************************************************************************)
(* ~client_impl, lines 186-194: the proof-of-work worker and the indexing  *)
(* task are cancelled and waited for (a worker cancelled inside a slice    *)
(* leaves through the catch on lines 383-387), then the four stores are    *)
(* closed.  The transmit worker, its sub-tasks, the timeout tasks and the  *)
(* fetch sub-tasks are left as they are.                                   *)
(***************************************************************************)
Destroy ==
    /\ ~hist.destroyed
    /\ powWorker' = 0
    /\ pow' = [pc |-> "idle", id |-> UnknownId, email |-> NoEmail]
    /\ mailIndex' = [mailIndex EXCEPT !.running = FALSE, !.todo = {}]
    /\ isOpen' = FALSE
    /\ hist' = [hist EXCEPT !.destroyed = TRUE]
    /\ UNCHANGED <<now, processing, archive, inbox, props, powQueue, txQueue, txWorker,
                   tx, staleTimeouts, fetch, server, unsent, call>>

(***************************************************************************)
(* Specifications.                                                         *)
(***************************************************************************)
\* version is what the properties store of the data directory holds
\* the state after construction over a data directory whose property store
\* holds `version`, for a user who will submit one of the payload sets in
\* `outgoing`
InitSending(fetches, version, outgoing) ==
    /\ isOpen = FALSE
    /\ now = 0
    /\ processing = EmptyMap
    /\ archive = EmptyMap
    /\ inbox = EmptyMap
    /\ props = [version |-> version, lastFetch |-> NoTime]
    /\ powQueue = <<>> /\ powWorker = 0
    /\ pow = [pc |-> "idle", id |-> UnknownId, email |-> NoEmail]
    /\ txQueue = <<>> /\ txWorker = 0
    /\ tx = TxIdle
    /\ staleTimeouts = {}
    /\ fetch = FetchIdle
    /\ server = [s \in Servers |-> {}]
    /\ unsent \in outgoing
    /\ mailIndex = IndexIdle
    /\ call = NoCall
    /\ hist = [crashes |-> 0, retries |-> 0, tooOld |-> 0, fetchLeft |-> fetches,
               cancelled |-> {}, cancelledInLoop |-> {}, quietRun |-> FALSE, quietPrev |-> FALSE, prev |-> NoPrev,
               minedAtOpen |-> {}, destroyed |-> FALSE]

InitStored(fetches, version) ==
    InitSending(fetches, version, {{p} : p \in OwnPayloads})

InitWith(fetches) == InitStored(fetches, NoVersion)

Init == InitWith(MaxFetches)

Pipeline ==
    \/ PowStart \/ PowSlice
    \/ TxStart \/ TxReduce \/ TxTimeout \/ OrphansDone
    \/ \E s \in Servers :
          \/ TaskStart(s) \/ TaskConnectFail(s) \/ TaskAlreadyStored(s) \/ TaskTooOld(s)
          \/ TaskRejected(s) \/ TaskStored(s) \/ TaskVerified(s) \/ TaskWrongMessage(s)
    \/ \E id \in staleTimeouts : StaleTimeout(id)

Fetcher ==
    \/ FetchTimeout \/ FetchEnd
    \/ \E s \in Servers :
          \/ FetchConnectFail(s) \/ FetchServerError(s) \/ FetchInventory(s)
          \/ FetchMessage(s) \/ ServerReceives(s)

\* the outgoing pipeline and the facade calls that act on it
Next ==
    \/ Open
    \/ Send(FALSE) \/ RetryMessage(FALSE) \/ CancelMessage(FALSE) \/ RemoveMessage(FALSE)
    \/ Pipeline

Spec == Init /\ [][Next]_vars


\* the same, with cancel_message calls and their outcome recorded in `call`
NextCalls ==
    \/ Open
    \/ Send(FALSE) \/ RetryMessage(FALSE) \/ CancelMessage(TRUE) \/ RemoveMessage(FALSE)
    \/ Pipeline
SpecCalls == Init /\ [][NextCalls]_vars

\* the same, with the process killed and opened again
NextCrash == Next \/ Crash
SpecCrash == Init /\ [][NextCrash]_vars

\* check_new_mail, the servers it reads and the calls on archive and inbox
NextFetch ==
    \/ Open \/ CheckNewMail(FALSE) \/ Fetcher
    \/ RemoveMessage(FALSE) \/ ArchiveMessage(FALSE)
SpecFetch == Init /\ [][NextFetch]_vars

\* the outgoing pipeline with servers that answer neither timestamp_too_old
\* nor message_already_stored
PipelineAll ==
    \/ PowStart \/ PowSlice
    \/ TxStart \/ TxReduce \/ TxTimeout \/ OrphansDone
    \/ \E s \in Servers :
          \/ TaskStart(s) \/ TaskConnectFail(s)
          \/ TaskRejected(s) \/ TaskStored(s) \/ TaskVerified(s) \/ TaskWrongMessage(s)
    \/ \E id \in staleTimeouts : StaleTimeout(id)
\* the outgoing pipeline together with check_new_mail (one run), for a
\* message sent to the wallet's own account and not retried (so that no
\* server is asked to store it twice)
FetcherAll ==
    \/ FetchTimeout \/ FetchEnd
    \/ \E s \in Servers :
          \/ FetchConnectFail(s) \/ FetchServerError(s) \/ FetchInventory(s)
          \/ FetchMessage(s)
NextAll ==
    \/ Open \/ Send(FALSE) \/ RemoveMessage(FALSE) \/ PipelineAll
    \/ CheckNewMail(FALSE) \/ FetcherAll
InitAll == InitWith(1)
SpecAll == InitAll /\ [][NextAll]_vars

\* the outgoing pipeline with every facade call and its outcome recorded in
\* `call`, over a fresh data directory or one written by another version
\* (the servers answer neither timestamp_too_old nor message_already_stored)
UnsupportedVersion == BTS_MAIL_CLIENT_DATABASE_VERSION + 1
InitFacade == \E v \in {NoVersion, UnsupportedVersion} : InitStored(0, v)
NextFacade ==
    \/ OpenCall
    \/ Send(TRUE) \/ SendRejected(TRUE) \/ RetryMessage(TRUE) \/ CancelMessage(TRUE)
    \/ RemoveMessage(TRUE)
    \/ PipelineAll
SpecFacade == InitFacade /\ [][NextFacade]_vars

\* check_new_mail and the indexing task across a restart, with mail on
\* server 1 only and server 2 silent
NextIndex ==
    \/ Open \/ Crash \/ IndexStep
    \/ CheckNewMail(FALSE) \/ FetchEnd
    \/ FetchInventory(1) \/ FetchMessage(1)
    \/ ServerReceives(1) \/ ServerReceivesLater(1)
SpecIndex == Init /\ [][NextIndex]_vars

\* the outgoing pipeline and the indexing task up to the destruction of the
\* client, after which nothing of it may run
Alive == ~hist.destroyed
NextDestroy ==
    \/ Destroy
    \/ Alive /\ Open
    \/ Alive /\ IndexStep
    \/ Alive /\ Send(FALSE)
    \/ Alive /\ RetryMessage(FALSE)
    \/ Alive /\ CancelMessage(FALSE)
    \/ Alive /\ RemoveMessage(FALSE)
    \/ Alive /\ PowStart
    \/ Alive /\ PowSlice
    \/ Alive /\ TxStart
    \/ Alive /\ TxReduce
    \/ Alive /\ TxTimeout
    \/ Alive /\ OrphansDone
    \/ \E s \in Servers :
          \/ Alive /\ TaskStart(s)
          \/ Alive /\ TaskConnectFail(s)
          \/ Alive /\ TaskAlreadyStored(s)
          \/ Alive /\ TaskTooOld(s)
          \/ Alive /\ TaskRejected(s)
          \/ Alive /\ TaskStored(s)
          \/ Alive /\ TaskVerified(s)
          \/ Alive /\ TaskWrongMessage(s)
    \/ \E id \in staleTimeouts : Alive /\ StaleTimeout(id)
SpecDestroy == Init /\ [][NextDestroy]_vars

\* check_new_mail with the calls that delete what it stored (their outcome
\* recorded in `call`), across a restart, with one message on server 1 (a
\* page is never full)
NextInbox ==
    \/ Open \/ Crash
    \/ CheckNewMail(FALSE) \/ FetchEnd
    \/ FetchConnectFail(1) \/ FetchServerError(1)
    \/ FetchInventory(1) \/ FetchMessage(1)
    \/ ServerReceives(1)
    \/ RemoveMessage(TRUE) \/ ArchiveMessage(TRUE)
SpecInbox == Init /\ [][NextInbox]_vars

\* two messages submitted one after the other, so that a job queue can hold
\* one while the worker is in the job of the other
InitOrder == InitSending(0, NoVersion, {OwnPayloads})
NextOrder == Open \/ Send(FALSE) \/ RemoveMessage(FALSE) \/ Crash \/ PipelineAll
SpecOrder == InitOrder /\ [][NextOrder]_vars

(***************************************************************************)
(* Properties.                                                             *)
(***************************************************************************)
\* no job is queued or running, no sub-task and no timeout is pending
Quiescent ==
    /\ pow.pc = "idle" /\ powQueue = <<>>
    /\ tx.pc = "idle" /\ txQueue = <<>> /\ staleTimeouts = {}
    /\ fetch.pc = "idle"

\* the archive records a step writes with status accepted (finalize_message)
Finalized(k) ==
    /\ Has(archive', k) /\ archive'[k].status = "accepted"
    /\ (~Has(archive, k) \/ archive[k] # archive'[k])

\* the step in which the transmit job of tx.id returns or dies
TxJobEnds == tx.pc = "wait" /\ tx'.pc # "wait"

\* C1: whenever finalize_message writes an archive record with status
\* accepted, the id of its content is at or below the proof-of-work target
\* the processing record carried at that instant.
AcceptedMeetsTarget ==
    [][\A k \in DOMAIN archive' :
          Finalized(k) =>
             /\ Has(processing, tx.id)
             /\ Digest(archive'[k].c) <= processing[tx.id].target]_vars

\* C2: when a transmit job ends with at least one server recorded as
\* successful, the message is in the archive with status accepted and its
\* processing record is deleted.
SuccessMeansArchived ==
    [][(TxJobEnds /\ tx.successful # {}) =>
          /\ Has(processing, tx.id)
          /\ ~Has(processing', tx.id)
          /\ \E k \in DOMAIN archive' :
                /\ archive'[k].status = "accepted"
                /\ archive'[k].c.p = processing[tx.id].c.p]_vars

\* C3: at every quiescent point no id is a key of both the processing store
\* and the archive.
DisjointStores ==
    Quiescent => (DOMAIN processing) \cap (DOMAIN archive) = {}

\* C4: on an open client cancel_message(id) returns normally exactly when a
\* processing record for id exists with status submitted or proof_of_work,
\* and then that record's status is canceled; in every other case, a missing
\* record included, it throws and changes nothing.
CancelSucceedsIffPending ==
    [][(isOpen /\ call'.op = "cancel" /\ call'.seq # call.seq) =>
          LET id == call'.id
              pending == /\ Has(processing, id)
                         /\ processing[id].status \in {"submitted", "proof_of_work"}
          IN /\ (call'.res = "ok") <=> pending
             /\ pending => processing'[id].status = "canceled"
             /\ ~pending => (call'.res = "error" /\ processing' = processing)]_vars

\* C5: once cancel_message has succeeded for a message and until it is
\* retried, no transmit sub-task starts for it and finalize_message does not
\* archive it as accepted.
CancelStopsTransmission ==
    [][/\ \A s \in Servers :
             (tx.tasks[s].pc = "new" /\ tx'.tasks[s].pc = "io1") =>
                processing[tx.id].c.p \notin hist.cancelled
       /\ \A k \in DOMAIN archive' :
             Finalized(k) => archive'[k].c.p \notin hist.cancelled]_vars

\* C6: when cancel_message succeeded while the proof-of-work job of the
\* message was in its mining loop, the job at its next slice boundary leaves
\* the loop, stores the record as failed with reason "Canceled by user." and
\* does not enqueue the message for transmission.
CancelSeenAtSliceBoundary ==
    [][(pow.pc = "mining" /\ pow' # pow /\ pow.email.c.p \in hist.cancelledInLoop) =>
          /\ pow'.pc = "idle"
          /\ Has(processing', pow.id)
          /\ processing'[pow.id].status = "failed"
          /\ processing'[pow.id].reason = "Canceled by user."
          /\ txQueue' = txQueue]_vars

\* C7: after the process was killed and the client opened again, once the
\* pipeline has nothing left to do every processing record is in a terminal
\* status (failed): none is left submitted, proof_of_work, transmitting or
\* canceled.
NoneStuckAfterRestart ==
    (hist.crashes > 0 /\ isOpen /\ Quiescent) =>
       \A id \in DOMAIN processing : processing[id].status = "failed"

\* C8: a record that went back to proof_of_work on timestamp_too_old is
\* mined and transmitted again: the pipeline never comes to rest (no job
\* queued or running, no timeout pending) with a record in proof_of_work.
TooOldIsMinedAgain ==
    Quiescent =>
       \A id \in DOMAIN processing : processing[id].status # "proof_of_work"

\* the ids the sub-tasks of the running check_new_mail have merged
MergedBy(s) == fetch.tasks[s].merged

\* the second of two check_new_mail runs with the same servers and the same
\* include_historical has ended, and since the first began nothing but the
\* two runs touched the servers, the archive or the inbox
RepeatedCheck ==
    /\ FetchEnded(fetch)
    /\ hist.prev.ran /\ hist.prev.quiet /\ hist.quietPrev
    /\ hist.prev.servers = fetch.servers /\ hist.prev.old = fetch.old

\* C9 (as amended): when the first run completed its pass on every server,
\* a repeated check_new_mail counts no message and leaves the inbox as it
\* was.
RepeatedCheckFindsNothing ==
    (RepeatedCheck /\ hist.prev.complete) =>
       (fetch.messagesIn = 0 /\ DOMAIN inbox = fetch.inbox0)

\* C9 witness: such a second run was handed messages by a server.
RepeatedCheckListsMessages ==
    /\ RepeatedCheck /\ hist.prev.complete
    /\ \E s \in Servers : MergedBy(s) # {}
    /\ inbox # EmptyMap

\* C9 (as stated): a repeated check_new_mail counts no message and leaves the
\* inbox as it was, however the first run ended.
RepeatedCheckFindsNothingEver ==
    RepeatedCheck => (fetch.messagesIn = 0 /\ DOMAIN inbox = fetch.inbox0)

\* C10: when a check_new_mail that nothing else interfered with has ended
\* and two servers both handed over a message that was not in the archive
\* before, the archive record of that message names both servers, the inbox
\* has its header, and each such message was counted once.
SameMessageFromTwoServers ==
    (FetchEnded(fetch) /\ hist.quietRun) =>
       \A s1 \in Servers : \A s2 \in Servers \ {s1} :
          \A id \in (MergedBy(s1) \cap MergedBy(s2)) \ fetch.known0 :
             /\ Has(archive, id) /\ {s1, s2} \subseteq archive[id].servers
             /\ Has(inbox, id) /\ inbox[id].id = id
             /\ fetch.messagesIn =
                   Cardinality((UNION {MergedBy(s) : s \in Servers}) \ fetch.known0)

\* C10 witness: both servers handed over the same unknown message and the
\* run counted one message.
TwoServersSameMessage ==
    /\ FetchEnded(fetch) /\ hist.quietRun
    /\ \E id \in (MergedBy(1) \cap MergedBy(2)) \ fetch.known0 :
          Has(archive, id) /\ fetch.messagesIn = 1

\* C11: once the indexing task has completed, every record of the archive
\* has its row in the index.
IndexCoherent ==
    (isOpen /\ ~mailIndex.running) => DOMAIN archive \subseteq mailIndex.rows

\* a facade call of the kind op has just returned or thrown
Called(op) == call'.op = op /\ call'.seq # call.seq

\* C12: retry_message(id) is accepted exactly when the client is open and the
\* processing store holds id with status failed; the record is then stored
\* as submitted with the servers resolved anew and queued for proof of work,
\* or failed again when no server was found; a rejected call changes neither
\* the record nor a queue.
RetryOnlyFailed ==
    [][Called("retry") =>
          LET id == call'.id
              failed == isOpen /\ Has(processing, id) /\ processing[id].status = "failed"
          IN /\ (call'.res = "ok") <=> failed
             /\ failed =>
                   /\ Has(processing', id)
                   /\ \/ /\ processing'[id].status = "submitted"
                         /\ processing'[id].servers # {}
                         /\ processing'[id].target = BTS_MAIL_PROOF_OF_WORK_TARGET
                         /\ powQueue' = Append(powQueue, id)
                         /\ powWorker' > 0
                      \/ /\ processing'[id].status = "failed"
                         /\ processing'[id].servers = {}
                         /\ powQueue' = powQueue
             /\ ~failed => UNCHANGED <<processing, powQueue, powWorker, txQueue, txWorker>>]_vars

\* C12 witness: an accepted retry_message has left the record submitted and
\* queued for proof of work.
RetryAccepted ==
    /\ call.op = "retry" /\ call.res = "ok"
    /\ Has(processing, call.id) /\ processing[call.id].status = "submitted"
    /\ powQueue # <<>> /\ powQueue[Len(powQueue)] = call.id

\* C13: on an open client remove_message(id) deletes the processing record
\* of id when its status is failed; with any other status it throws and both
\* stores stay as they are; with no processing record it removes the archive
\* record of id, if there is one, and leaves the processing store alone.
RemoveOnlyFailed ==
    [][(isOpen /\ Called("remove")) =>
          LET id == call'.id
          IN IF Has(processing, id)
             THEN IF processing[id].status = "failed"
                  THEN /\ call'.res = "ok"
                       /\ processing' = Remove(processing, id) /\ archive' = archive
                  ELSE /\ call'.res = "error"
                       /\ processing' = processing /\ archive' = archive
             ELSE /\ call'.res = "ok"
                  /\ processing' = processing
                  /\ ~Has(archive', id)
                  /\ \A k \in (DOMAIN archive) \ {id} :
                        Has(archive', k) /\ archive'[k] = archive[k]]_vars

\* C13 witness: remove_message has thrown for a record that is in the
\* processing store with another status than failed.
RemoveRefused ==
    /\ call.op = "remove" /\ call.res = "error" /\ isOpen
    /\ Has(processing, call.id) /\ processing[call.id].status # "failed"

\* C14: a facade call that throws on a precondition leaves the processing,
\* archive, inbox and properties stores and both job queues as they were.
RejectedCallChangesNothing ==
    [][(call'.seq # call.seq /\ call'.res = "error") =>
          UNCHANGED <<processing, archive, inbox, props, powQueue, txQueue>>]_vars

\* C14 witness: cancel_message has thrown for a record past proof_of_work.
CancelRefused ==
    /\ call.op = "cancel" /\ call.res = "error" /\ isOpen
    /\ Has(processing, call.id)
    /\ StatusOrd(processing[call.id].status) > StatusOrd("proof_of_work")

\* C18: open over a properties store whose version is not the supported one
\* throws to its caller, re-dispatches no record and leaves the client
\* closed.
OpenFailsOnWrongVersion ==
    [][(Called("open")
        /\ props.version \notin {NoVersion, BTS_MAIL_CLIENT_DATABASE_VERSION}) =>
          /\ call'.res = "error"
          /\ ~isOpen'
          /\ UNCHANGED <<processing, powQueue, powWorker, txQueue, txWorker>>]_vars

\* C15: every processing record whose stored status is failed has a
\* failure_reason that is not empty.
FailedHasReason ==
    \A id \in DOMAIN processing :
       processing[id].status = "failed" => processing[id].reason # ""

\* C16: the status of every record in the processing store is submitted,
\* proof_of_work, transmitting, failed or canceled; none is accepted or
\* received.
ProcessingStatuses ==
    \A id \in DOMAIN processing :
       processing[id].status \in
          {"submitted", "proof_of_work", "transmitting", "failed", "canceled"}

\* C16 witness: finalize_message has archived a message as accepted and its
\* record has left the processing store.
FinalizedAndGone ==
    \E k \in DOMAIN archive :
       /\ archive[k].status = "accepted"
       /\ \A id \in DOMAIN processing : processing[id].c.p # archive[k].c.p

\* C17: a processing record becomes canceled only from submitted or
\* proof_of_work, never from transmitting, failed or any later status, and no
\* archive record is ever canceled.
CanceledOnlyFromPending ==
    [][/\ \A id \in DOMAIN processing' :
             (/\ processing'[id].status = "canceled"
              /\ (Has(processing, id) => processing[id].status # "canceled")) =>
                /\ Has(processing, id)
                /\ processing[id].status \in {"submitted", "proof_of_work"}
       /\ \A k \in DOMAIN archive' : archive'[k].status # "canceled"]_vars

\* C17 witness: a record was canceled while another part of the pipeline
\* had it: it is canceled and its proof-of-work job is mining, or it is
\* queued for transmission.
CanceledInPipeline ==
    \E id \in DOMAIN processing :
       /\ processing[id].status = "canceled"
       /\ \/ (pow.pc = "mining" /\ pow.id = id)
          \/ (txQueue # <<>> /\ Head(txQueue) = id)

\* the step in which the timeout task of the running transmit job fires
TimeoutFires ==
    tx.pc = "wait" /\ tx.timeout /\ ~tx'.timeout /\ tx'.pc = "wait" /\ Has(processing, tx.id)

\* C19: when the transmit timeout fires, the record is marked failed with
\* reason "Timed out while transmitting message." if no server has succeeded
\* and its status is transmitting or later, and is not marked so if some
\* server has succeeded.
TimeoutFailsIffNoSuccess ==
    [][TimeoutFires =>
          LET timedOut(proc) == /\ proc[tx.id].status = "failed"
                                /\ proc[tx.id].reason = "Timed out while transmitting message."
          IN /\ (/\ tx.successful = {}
                 /\ StatusOrd(processing[tx.id].status) >= StatusOrd("transmitting")) =>
                    processing'[tx.id].status = "failed"
             /\ tx.successful # {} => (timedOut(processing') => timedOut(processing))]_vars

\* C20: each queue has at most one worker, and the worker of a queue is in
\* at most one job: a proof-of-work job or a transmit job is running only
\* while the one worker of its queue is alive.
OneWorkerPerQueue ==
    /\ powWorker <= 1 /\ txWorker <= 1
    /\ pow.pc = "mining" => powWorker = 1
    /\ tx.pc = "wait" => txWorker = 1

\* C20 witness: a message was scheduled on a queue whose worker is in a job
\* (proof of work scheduled while a job is mining, or transmission scheduled
\* while a transmit job waits for its sub-tasks).
ScheduledWhileWorking ==
    \/ (pow.pc = "mining" /\ powQueue # <<>>)
    \/ (tx.pc = "wait" /\ txQueue # <<>>)
(***************************************************************************)
(* C21: the job queues are first in, first out.  A message is pushed at    *)
(* the back of a queue, and the job a worker starts is the job of the      *)
(* message at the front, the one pushed before all others in the queue: a  *)
(* message pushed before another has its job started before the other's,   *)
(* for mining and (pushed when its mining job completes) for transmission. *)
(***************************************************************************)
\* the records other than id are left as they are
OnlyRecord(id) ==
    \A k \in DOMAIN processing \ {id} : Has(processing', k) /\ processing'[k] = processing[k]

\* the worker takes the front of the mining queue and runs that message's job
StartsFrontPow ==
    /\ powQueue # <<>> /\ powQueue' = Tail(powQueue)
    /\ pow.pc = "idle"
    /\ OnlyRecord(Head(powQueue))
    /\ pow'.pc = "mining" => pow'.id = Head(powQueue)
    /\ txQueue' # txQueue => txQueue' = Append(txQueue, Head(powQueue))

\* the worker takes the front of the transmit queue and runs that message's job
StartsFrontTx ==
    /\ txQueue # <<>> /\ txQueue' = Tail(txQueue)
    /\ tx.pc = "idle"
    /\ OnlyRecord(Head(txQueue))
    /\ tx'.pc # "idle" => tx'.id = Head(txQueue)

JobsStartInQueueOrder ==
    [][(isOpen /\ isOpen') =>
       /\ powQueue' # powQueue =>
             \/ \E id \in DOMAIN processing' : powQueue' = Append(powQueue, id)
             \/ StartsFrontPow
       /\ txQueue' # txQueue =>
             \/ \E id \in DOMAIN processing : txQueue' = Append(txQueue, id)
             \/ StartsFrontTx]_vars

\* a message waits in the mining queue while the worker mines the one pushed
\* before it
SecondWaitsForFirst ==
    /\ pow.pc = "mining" /\ Len(powQueue) = 1 /\ pow.id # Head(powQueue)

(***************************************************************************)
(* C22: a processing record whose status is not failed has an empty        *)
(* failure_reason, also after retry_message took a failed record back and  *)
(* after a server answered timestamp_too_old.                              *)
(***************************************************************************)
ReasonOnlyWhenFailed ==
    \A id \in DOMAIN processing :
       processing[id].status # "failed" => processing[id].reason = ""

(***************************************************************************)
(* C23: a fetch sub-task goes forward through the server's inventory: an   *)
(* inventory request made after a full page is merged does not return the  *)
(* page just merged again, so the loop ends by itself after a page shorter *)
(* than BTS_MAIL_CLIENT_MAX_INVENTORY_SIZE.                                *)
(***************************************************************************)

InventoryAdvances ==
    [][\A s \in Servers :
          (fetch.pc = "run" /\ fetch.tasks[s].pc = "inv"
              /\ fetch'.pc = "run" /\ fetch'.tasks[s].pc = "msgs")
          => \A i \in DOMAIN fetch'.tasks[s].page :
                fetch'.tasks[s].page[i] \notin fetch.tasks[s].merged]_vars

(***************************************************************************)
(* C24: when check_new_mail ends a pass over a non-empty list of servers,  *)
(* last_fetch is set to the check time recorded before the pass if at      *)
(* least one sub-task completed its pass, and keeps its value if every     *)
(* sub-task failed (connect failure, server error or timeout).             *)
(***************************************************************************)
PassEnds == fetch.pc = "run" /\ fetch'.pc = "idle" /\ isOpen'

LastFetchAdvancesIffSomeServerPassed ==
    [][PassEnds =>
          IF \E s \in fetch.servers : fetch.tasks[s].ok
          THEN props'.lastFetch = fetch.checkTime
          ELSE props'.lastFetch = props.lastFetch]_vars

(***************************************************************************)
(* C25: a proof-of-work job that starts on a record stored with status     *)
(* proof_of_work whose content id is already at or below its target (open  *)
(* pushed it again after a crash that followed the store of the final      *)
(* nonce) pushes the message to the transmit queue in its first segment:   *)
(* it runs no mining slice and leaves nonce and timestamp as they are.     *)
(***************************************************************************)
\* the worker starts the job of the record at the front of the mining queue
PowJobStarts ==
    /\ isOpen /\ isOpen'
    /\ powWorker > 0 /\ pow.pc = "idle" /\ powQueue # <<>>
    /\ powQueue' = Tail(powQueue)
    /\ Has(processing, Head(powQueue))

MinedRecordGoesToTransmit ==
    [][(PowJobStarts /\ MinedRecord(processing[Head(powQueue)])) =>
          LET id == Head(powQueue)
          IN /\ pow'.pc = "idle"
             /\ txQueue' = Append(txQueue, id)
             /\ Has(processing', id)
             /\ processing'[id] = processing[id]
             /\ now' = now]_vars

\* after a restart the transmit queue holds a message whose record open
\* found already mined: its job ran on the stored record
MinedRecordRedispatched ==
    /\ hist.crashes > 0 /\ hist.retries = 0
    /\ txQueue # <<>> /\ pow.pc = "idle"
    /\ Head(txQueue) \in hist.minedAtOpen
    /\ Has(processing, Head(txQueue))
    /\ MinedRecord(processing[Head(txQueue)])

(***************************************************************************)
(* C26: once the client is destroyed no task of it is left: no             *)
(* proof-of-work worker, transmit worker, transmit sub-task, timeout task  *)
(* or indexing task is running, so none touches a store after it was       *)
(* closed.                                                                 *)
(***************************************************************************)
NothingRuns ==
    /\ powWorker = 0 /\ pow.pc = "idle"
    /\ txWorker = 0 /\ tx.pc = "idle"
    /\ \A s \in Servers : tx.tasks[s].pc \in {"none", "done", "threw"}
    /\ ~tx.timeout /\ staleTimeouts = {}
    /\ ~mailIndex.running

DestroyedMeansStopped == hist.destroyed => (~isOpen /\ NothingRuns)

(***************************************************************************)
(* C27: inserts into the in-memory index exclude one another across        *)
(* threads: finalize_message and the fetch sub-tasks (main thread) insert  *)
(* no row while the indexing task (indexing thread) still has rows of the  *)
(* archive to insert.                                                      *)
(***************************************************************************)
\* a fetch sub-task merges the message at the head of its page (line 745)
FetchInserts(s) ==
    /\ fetch.pc = "run" /\ fetch.tasks[s].pc = "msgs"
    /\ fetch'.pc = "run" /\ fetch'.timeout = fetch.timeout
    /\ fetch'.tasks[s].page = Tail(fetch.tasks[s].page)
    /\ fetch'.tasks[s].pc = "done" => fetch'.tasks[s].ok

\* a transmit job finalizes its message (line 542)
FinalizeInserts ==
    /\ tx.pc # "idle" /\ Has(processing, tx.id) /\ ~Has(processing', tx.id)
    /\ archive' # archive

IndexingInserts == mailIndex.running /\ mailIndex.todo # {}

IndexInsertsExclusive ==
    [][((\E s \in Servers : FetchInserts(s)) \/ FinalizeInserts) => ~IndexingInserts]_vars

(***************************************************************************)
(* C28: a proof-of-work job that finds its record already canceled (the    *)
(* message was cancelled while it waited in the queue) marks it failed     *)
(* with the reason "Canceled by user.", mines nothing and pushes nothing   *)
(* to the transmit queue.                                                  *)
(***************************************************************************)
CanceledInQueueFailsByUser ==
    [][(PowJobStarts /\ processing[Head(powQueue)].status = "canceled") =>
          LET id == Head(powQueue)
          IN /\ Has(processing', id)
             /\ processing'[id].status = "failed"
             /\ processing'[id].reason = "Canceled by user."
             /\ processing'[id].c = processing[id].c
             /\ pow'.pc = "idle"
             /\ txQueue' = txQueue]_vars

(***************************************************************************)
(* C29: a processing record stored with status failed stays failed until   *)
(* retry_message takes it back (status submitted, or failed again when no  *)
(* server is found) or remove_message deletes it: no job, sub-task or      *)
(* timeout task stores another status over it from a copy it took earlier. *)
(***************************************************************************)
Retried == hist'.retries # hist.retries

FailedStaysFailed ==
    [][\A id \in DOMAIN processing :
          (processing[id].status = "failed" /\ ~Retried) =>
              \/ Has(processing', id) /\ processing'[id].status = "failed"
              \/ ~Has(processing', id) /\ archive' = archive]_vars

(***************************************************************************)
(* C30: every row of the in-memory index refers to a message get_message   *)
(* can resolve, one with a record in the archive or in the processing      *)
(* store, so the queries by sender and recipient, which call get_message   *)
(* on every row they match, do not fail with "Message not found".          *)
(***************************************************************************)
\* get_message, lines 570-576: the ids it resolves
Resolvable == (DOMAIN archive) \cup (DOMAIN processing)

\* the queries read the index only when the indexing task has ended (lines
\* 903-906)
IndexRowsResolve == (isOpen /\ ~mailIndex.running) => mailIndex.rows \subseteq Resolvable

(***************************************************************************)
(* C31: every inbox record's id is the key of an archive record, whatever  *)
(* check_new_mail, archive_message and remove_message calls were made.     *)
(***************************************************************************)
InboxInArchive == DOMAIN inbox \subseteq DOMAIN archive

(***************************************************************************)
(* C31, as it holds: an inbox record is stored only for a message whose    *)
(* archive record has just been stored, archive_message deletes the inbox  *)
(* record alone, and the archive record of a message in the inbox goes     *)
(* only when remove_message is called on that id, which leaves the inbox   *)
(* record where it is.                                                     *)
(***************************************************************************)
InboxLosesArchiveOnlyByRemove ==
    [][/\ \A id \in (DOMAIN inbox') \ (DOMAIN inbox) : Has(archive', id)
       /\ \A id \in (DOMAIN inbox) \cap (DOMAIN archive) :
             (Has(inbox', id) /\ ~Has(archive', id)) =>
                (Called("remove") /\ call'.id = id /\ call'.res = "ok")
       /\ (Called("archive") /\ call'.res = "ok") =>
             /\ archive' = archive
             /\ DOMAIN inbox' = (DOMAIN inbox) \ {call'.id}]_vars

\* remove_message has deleted the archive record of a fetched message and
\* its inbox record is still there
RemovedStaysInInbox ==
    /\ call.op = "remove" /\ call.res = "ok"
    /\ Has(inbox, call.id) /\ ~Has(archive, call.id)

====
